---- MODULE Spec2Model ----
(***************************************************************************)
(* Solar-PV verification pipeline: quality gate (quality_checker.py),      *)
(* buffer-zone analysis (geometry.py) and the two per-sample drivers       *)
(* (main.py main, final_main.py process_sample).                           *)
(*                                                                         *)
(* Number representation (Python floats become fixed-point integers):      *)
(*   cloud ratio                  : 1e-4 units   (0.30  -> 3000)           *)
(*   blur / brightness / contrast : 1e-3 units   (100.0 -> 100000)         *)
(*   confidence                   : 1e-2 units, means in 1e-4 units        *)
(*   scale (m/px)                 : 1e-2 units   (0.15  -> 15)             *)
(*   areas in sqm / sqft          : 1e-4 units                             *)
(*   pixel coordinates and pixel areas are integers.                       *)
(* A panel polygon is an axis-aligned rectangle <<x1, y1, x2, y2>>; a      *)
(* buffer is the closed disc around the image centre (shapely's            *)
(* Point.buffer is a 64-gon inscribed in that disc; the catalogue below    *)
(* keeps every rectangle well away from the sliver where they differ).     *)
(***************************************************************************)
EXTENDS Integers, Sequences, FiniteSets, TLC

VARIABLES variant, input_mode, pc, image_source, img, scale, gate, panels,
          result, computed, out, calls,
          cli,      \* main.py main: the command line and what became of it
          tester,   \* buffer_tester.py main: what its core logic computed
          batch,    \* final_main.py main: the loop over the input rows
          calc      \* a single call of a pure function: arguments and value

vars == <<variant, input_mode, pc, image_source, img, scale, gate, panels,
          result, computed, out, calls, cli, tester, batch, calc>>

(***************************************************************************)
(* Bounds and input catalogues                                             *)
(***************************************************************************)
MaxPanels == 2

\* raw image statistics an image can have (values on, just inside and
\* just outside every threshold of both threshold tables)
CloudValues      == {1000, 3000, 3004, 5000}
BlurValues       == {1000, 50000, 99996, 100000, 200000}
BrightnessValues == {15000, 25000, 30000, 120000, 240000, 245000}
ContrastValues   == {10000, 20000, 25000, 29996, 30000, 60000}

Images == [cloud : CloudValues, blur : BlurValues,
           brightness : BrightnessValues, contrast : ContrastValues]

\* image centre: cx, cy = w // 2, h // 2 of the 1332 x 1332 crop
CenterX == 666
CenterY == 666

\* detector outputs: rectangles <<x1, y1, x2, y2>>
RectInner   == <<656, 656, 676, 676>>   \* contains the centre
RectOverlap == <<666, 666, 696, 686>>   \* overlaps RectInner, meets buffer 1
RectRing    == <<711, 660, 731, 672>>   \* meets buffer 2 only
RectFar     == <<766, 766, 786, 786>>   \* outside both buffers
Polygons    == {RectInner, RectOverlap, RectRing, RectFar}
Confidences == {30, 90}
PanelData   == [polygon : Polygons, confidence : Confidences]

PanelLists == UNION {[1..n -> PanelData] : n \in 0..MaxPanels}

NoValue == [none |-> TRUE]

(***************************************************************************)
(* Generic helpers                                                         *)
(***************************************************************************)
Max2(a, b) == IF a >= b THEN a ELSE b
Min2(a, b) == IF a <= b THEN a ELSE b

\* Python round(v, ndigits) on a value held in units m times finer than the
\* rounded digit: round half to even, result a multiple of m
Round(v, m) ==
    LET r    == v % m
        base == v - r
    IN  IF 2 * r < m THEN base
        ELSE IF 2 * r > m THEN base + m
        ELSE IF (base \div m) % 2 = 0 THEN base ELSE base + m

\* <<floor(n * 10^k / d), remainder>> by long division (products stay small)
RECURSIVE LongQR(_, _, _)
LongQR(n, d, k) ==
    IF k = 0 THEN <<n \div d, n % d>>
    ELSE LET p == LongQR(n, d, k - 1)
         IN  <<p[1] * 10 + (p[2] * 10) \div d, (p[2] * 10) % d>>

\* floor(a * b / 10^4) and floor(a * b / 10^6) without leaving 32 bits
MulE4(a, b) == (a \div 10000) * b + ((a % 10000) * b) \div 10000
MulE6(a, b) == ((a \div 1000) * b + ((a % 1000) * b) \div 1000) \div 1000

\* exact non-negative numbers beyond 32 bits: little-endian sequences of
\* digits to the base 10^4
BigBase == 10000

\* the digits of n, 0 <= n < 2^31
BigOf(n) == <<n % BigBase, (n \div BigBase) % BigBase, n \div (BigBase * BigBase)>>

\* a * k + c for a small factor k (k <= 200000) and a carry c
RECURSIVE BigMulCarry(_, _, _)
BigMulCarry(a, k, c) ==
    IF a = <<>>
      THEN IF c = 0 THEN <<>>
           ELSE <<c % BigBase>> \o BigMulCarry(<<>>, k, c \div BigBase)
    ELSE LET v == Head(a) * k + c
         IN  <<v % BigBase>> \o BigMulCarry(Tail(a), k, v \div BigBase)

BigMulSmall(a, k) == BigMulCarry(a, k, 0)

\* without leading zero digits
RECURSIVE BigNorm(_)
BigNorm(a) ==
    IF a # <<>> /\ a[Len(a)] = 0 THEN BigNorm(SubSeq(a, 1, Len(a) - 1)) ELSE a

\* a <= b
RECURSIVE BigLeqNorm(_, _)
BigLeqNorm(a, b) ==
    IF Len(a) # Len(b) THEN Len(a) < Len(b)
    ELSE IF a = <<>> THEN TRUE
    ELSE IF a[Len(a)] # b[Len(b)] THEN a[Len(a)] < b[Len(b)]
    ELSE BigLeqNorm(SubSeq(a, 1, Len(a) - 1), SubSeq(b, 1, Len(b) - 1))

BigLeq(a, b) == BigLeqNorm(BigNorm(a), BigNorm(b))

RECURSIVE SumSeq(_)
SumSeq(s) == IF s = <<>> THEN 0 ELSE Head(s) + SumSeq(Tail(s))

RECURSIVE MaxSeq(_)
MaxSeq(s) == IF Len(s) = 1 THEN s[1] ELSE Max2(Head(s), MaxSeq(Tail(s)))

RECURSIVE MinSeq(_)
MinSeq(s) == IF Len(s) = 1 THEN s[1] ELSE Min2(Head(s), MinSeq(Tail(s)))

\* dict.get(key, default)
Get(m, k, default) == IF k \in DOMAIN m THEN m[k] ELSE default

(***************************************************************************)
(* quality_checker.py                                                      *)
(***************************************************************************)
cloud_threshold == 3000      \* ImageQualityChecker(cloud_threshold=0.3, ...)
blur_threshold  == 100000    \* ImageQualityChecker(..., blur_threshold=100)

\* the four measurements of an image (cv2 / numpy statistics)
check_cloud_coverage(image) == image.cloud
check_blur(image)           == image.blur
check_brightness(image)     == image.brightness
check_contrast(image)       == image.contrast

\* variant: the blur check placed ahead of the cloud check
is_verifiable_blur_first(image) ==
    LET m4 == ("cloud_coverage" :> Round(image.cloud, 10))
              @@ ("blur_score" :> Round(image.blur, 10))
              @@ ("brightness" :> Round(image.brightness, 10))
              @@ ("contrast" :> Round(image.contrast, 10))
    IN  IF image.blur < blur_threshold
          THEN [ok |-> FALSE, reason |-> "low_resolution", metrics |-> m4]
        ELSE IF image.cloud > cloud_threshold
          THEN [ok |-> FALSE, reason |-> "heavy_cloud", metrics |-> m4]
        ELSE IF image.brightness < 30000
          THEN [ok |-> FALSE, reason |-> "heavy_shadow", metrics |-> m4]
        ELSE IF image.brightness > 240000
          THEN [ok |-> FALSE, reason |-> "overexposed", metrics |-> m4]
        ELSE IF image.contrast < 20000
          THEN [ok |-> FALSE, reason |-> "low_contrast", metrics |-> m4]
        ELSE [ok |-> TRUE, reason |-> "clear_image", metrics |-> m4]

\* variant: the blur failure condition written "<=" instead of "<"
is_verifiable_blur_le(image) ==
    LET m4 == ("cloud_coverage" :> Round(image.cloud, 10))
              @@ ("blur_score" :> Round(image.blur, 10))
              @@ ("brightness" :> Round(image.brightness, 10))
              @@ ("contrast" :> Round(image.contrast, 10))
    IN  IF image.cloud > cloud_threshold
          THEN [ok |-> FALSE, reason |-> "heavy_cloud", metrics |-> m4]
        ELSE IF image.blur <= blur_threshold
          THEN [ok |-> FALSE, reason |-> "low_resolution", metrics |-> m4]
        ELSE IF image.brightness < 30000
          THEN [ok |-> FALSE, reason |-> "heavy_shadow", metrics |-> m4]
        ELSE IF image.brightness > 240000
          THEN [ok |-> FALSE, reason |-> "overexposed", metrics |-> m4]
        ELSE IF image.contrast < 20000
          THEN [ok |-> FALSE, reason |-> "low_contrast", metrics |-> m4]
        ELSE [ok |-> TRUE, reason |-> "clear_image", metrics |-> m4]

is_verifiable(image) ==
    LET cloud_ratio == check_cloud_coverage(image)
        m1 == ("cloud_coverage" :> Round(cloud_ratio, 10))
        blur_score == check_blur(image)
        m2 == m1 @@ ("blur_score" :> Round(blur_score, 10))
        brightness == check_brightness(image)
        m3 == m2 @@ ("brightness" :> Round(brightness, 10))
        contrast == check_contrast(image)
        m4 == m3 @@ ("contrast" :> Round(contrast, 10))
    IN  IF cloud_ratio > cloud_threshold
          THEN [ok |-> FALSE, reason |-> "heavy_cloud", metrics |-> m1]
        ELSE IF blur_score < blur_threshold
          THEN [ok |-> FALSE, reason |-> "low_resolution", metrics |-> m2]
        ELSE IF brightness < 30000
          THEN [ok |-> FALSE, reason |-> "heavy_shadow", metrics |-> m3]
        ELSE IF brightness > 240000
          THEN [ok |-> FALSE, reason |-> "overexposed", metrics |-> m3]
        ELSE IF contrast < 20000
          THEN [ok |-> FALSE, reason |-> "low_contrast", metrics |-> m4]
        ELSE [ok |-> TRUE, reason |-> "clear_image", metrics |-> m4]

(***************************************************************************)
(* geometry.py                                                             *)
(***************************************************************************)
BUFFER_1_SQFT == 1200
BUFFER_2_SQFT == 2400
METERS_PER_PIXEL_DEFAULT == 15

\* sqft * 0.092903, result in 1e-6 sqm
sqft_to_sqmeters(sqft) == sqft * 92903

\* sqrt(area / pi): the model keeps the SQUARE of the radius, in 1e-6 m^2
\* (area in 1e-6 sqm, pi as 3.141593)
area_to_radius_meters(area_sqm) == LongQR(area_sqm, 3141593, 6)[1]

\* variant: both radii derived from the zone-1 area
get_buffer_radii_same_area(scale_mpp) ==
    LET r1_m == area_to_radius_meters(sqft_to_sqmeters(BUFFER_1_SQFT))
        r2_m == area_to_radius_meters(sqft_to_sqmeters(BUFFER_1_SQFT))
    IN  [buffer_1_px |-> r1_m \div (100 * scale_mpp * scale_mpp),
         buffer_2_px |-> r2_m \div (100 * scale_mpp * scale_mpp),
         buffer_1_m  |-> r1_m,
         buffer_2_m  |-> r2_m]

\* variant: the two areas exchanged
get_buffer_radii_swapped(scale_mpp) ==
    LET r1_m == area_to_radius_meters(sqft_to_sqmeters(BUFFER_2_SQFT))
        r2_m == area_to_radius_meters(sqft_to_sqmeters(BUFFER_1_SQFT))
    IN  [buffer_1_px |-> r1_m \div (100 * scale_mpp * scale_mpp),
         buffer_2_px |-> r2_m \div (100 * scale_mpp * scale_mpp),
         buffer_1_m  |-> r1_m,
         buffer_2_m  |-> r2_m]

\* squares of the radii; the pixel radii are floored, which decides
\* "integer squared distance <= radius squared" exactly
get_buffer_radii(scale_mpp) ==
    LET r1_m == area_to_radius_meters(sqft_to_sqmeters(BUFFER_1_SQFT))
        r2_m == area_to_radius_meters(sqft_to_sqmeters(BUFFER_2_SQFT))
    IN  [buffer_1_px |-> r1_m \div (100 * scale_mpp * scale_mpp),
         buffer_2_px |-> r2_m \div (100 * scale_mpp * scale_mpp),
         buffer_1_m  |-> r1_m,
         buffer_2_m  |-> r2_m]

\* Point(cx, cy).buffer(r): the closed disc, kept as centre and radius squared
Buffer(cx, cy, rsq) == [cx |-> cx, cy |-> cy, rsq |-> rsq]

\* polygon.intersects(buffer): the closed rectangle and the closed disc share
\* a point (touching counts): squared distance from the centre to the
\* rectangle is at most the squared radius
Intersects(p, b) ==
    LET dx == Max2(Max2(p[1] - b.cx, b.cx - p[3]), 0)
        dy == Max2(Max2(p[2] - b.cy, b.cy - p[4]), 0)
    IN  dx * dx + dy * dy <= b.rsq

\* polygon.area
Area(p) == (p[3] - p[1]) * (p[4] - p[2])

\* area of the intersection of the rectangles s[i], i \in I (I non-empty)
InterArea(s, I) ==
    LET x1 == CHOOSE v \in {s[i][1] : i \in I} : \A i \in I : s[i][1] <= v
        y1 == CHOOSE v \in {s[i][2] : i \in I} : \A i \in I : s[i][2] <= v
        x2 == CHOOSE v \in {s[i][3] : i \in I} : \A i \in I : s[i][3] >= v
        y2 == CHOOSE v \in {s[i][4] : i \in I} : \A i \in I : s[i][4] >= v
    IN  IF x2 > x1 /\ y2 > y1 THEN (x2 - x1) * (y2 - y1) ELSE 0

RECURSIVE SumOver(_, _)
SumOver(S, f) ==
    IF S = {} THEN 0
    ELSE LET e == CHOOSE e \in S : TRUE IN f[e] + SumOver(S \ {e}, f)

\* variant: the areas of the rectangles added up
UnionArea_sum(s) ==
    SumOver(1..Len(s), [i \in 1..Len(s) |-> Area(s[i])])

\* unary_union(panels).area by inclusion-exclusion over the rectangles
UnionArea(s) ==
    LET Subs == SUBSET (1..Len(s)) \ {{}}
        term == [I \in Subs |->
                   IF Cardinality(I) % 2 = 1 THEN InterArea(s, I)
                                             ELSE 0 - InterArea(s, I)]
    IN  SumOver(Subs, term)

\* variant: no early return for an empty list (an empty geometry comes back)
merge_panels_empty_geom(ps) == [union_of |-> ps]

\* variant: a later polygon replaces the earlier ones
merge_panels_last_wins(ps) ==
    IF ps = <<>> THEN NoValue ELSE [union_of |-> <<ps[Len(ps)]>>]

\* the merged geometry is kept as the sequence of polygons it is the union
\* of; None is NoValue
merge_panels(ps) == IF ps = <<>> THEN NoValue ELSE [union_of |-> ps]

determine_qc_status(detected, total_area_sqft, zone_id, cloud_coverage, blur_score, brightness, contrast) ==
    IF cloud_coverage > 3000 THEN "NOT_VERIFIABLE (cloud_coverage)"
    ELSE IF blur_score < 50000 THEN "NOT_VERIFIABLE (blur)"
    ELSE IF brightness < 20000 \/ brightness > 250000
      THEN "NOT_VERIFIABLE (brightness)"
    ELSE IF contrast < 30000 THEN "NOT_VERIFIABLE (contrast)"
    ELSE IF detected THEN "VERIFIABLE (present)"
    ELSE "VERIFIABLE (not present)"

\* list.index(x), 0-based: position of the first element equal to x
IndexOf(s, x) == (CHOOSE i \in 1..Len(s) :
                    s[i] = x /\ \A j \in 1..(i - 1) : s[j] # x) - 1

\* [p for p in panel_polygons if p.intersects(buffer)]
Detected(panel_polygons, b) ==
    SelectSeq(panel_polygons, LAMBDA p : Intersects(p, b))

\* variant: buffer 2 tested ahead of buffer 1
SelectZone_b2_first(detected_b1, detected_b2) ==
    IF detected_b2 # <<>>
      THEN [valid_panels |-> detected_b2, zone_detected |-> 2,
            status |-> "Found in Buffer 2 (Expanded Search)"]
    ELSE IF detected_b1 # <<>>
      THEN [valid_panels |-> detected_b1, zone_detected |-> 1,
            status |-> "Found in Buffer 1 (High Confidence)"]
    ELSE [valid_panels |-> <<>>, zone_detected |-> 0,
          status |-> "No Solar Detected"]

\* variant: only the first match is kept as candidate
SelectZone_first_match(detected_b1, detected_b2) ==
    IF detected_b1 # <<>>
      THEN [valid_panels |-> <<Head(detected_b1)>>, zone_detected |-> 1,
            status |-> "Found in Buffer 1 (High Confidence)"]
    ELSE IF detected_b2 # <<>>
      THEN [valid_panels |-> <<Head(detected_b2)>>, zone_detected |-> 2,
            status |-> "Found in Buffer 2 (Expanded Search)"]
    ELSE [valid_panels |-> <<>>, zone_detected |-> 0,
          status |-> "No Solar Detected"]

\* the if / elif / else that picks the zone and the candidate list
SelectZone(detected_b1, detected_b2) ==
    IF detected_b1 # <<>>
      THEN [valid_panels |-> detected_b1, zone_detected |-> 1,
            status |-> "Found in Buffer 1 (High Confidence)"]
    ELSE IF detected_b2 # <<>>
      THEN [valid_panels |-> detected_b2, zone_detected |-> 2,
            status |-> "Found in Buffer 2 (Expanded Search)"]
    ELSE [valid_panels |-> <<>>, zone_detected |-> 0,
          status |-> "No Solar Detected"]

\* variant: an index is appended only when it is not yet in the list
RECURSIVE ValidPanelIndices_unique(_, _)
ValidPanelIndices_unique(valid_panels, panel_polygons) ==
    IF valid_panels = <<>> THEN <<>>
    ELSE LET n    == Len(valid_panels)
             rest == ValidPanelIndices_unique(SubSeq(valid_panels, 1, n - 1),
                                              panel_polygons)
             idx  == IndexOf(panel_polygons, valid_panels[n])
         IN  IF \E j \in 1..Len(rest) : rest[j] = idx THEN rest
             ELSE Append(rest, idx)

\* the loop over valid_panels: "panel in panel_polygons" holds for every
\* candidate (each is an element of the list), so one index is appended per
\* candidate: the first position holding an equal polygon
ValidPanelIndices(valid_panels, panel_polygons) ==
    [i \in 1..Len(valid_panels) |-> IndexOf(panel_polygons, valid_panels[i])]

\* total_sqm * 10.7639 without rounding: sqm in units u gives sqft in
\* units u * 1e-4
sqm_to_sqft_exact(a) == BigMulSmall(a, 107639)

\* variant: the factor 0.093
sqft_to_sqmeters_exact_093(a) == BigMulSmall(a, 93000)

\* sqft * 0.092903 without rounding: sqft in units u gives sqm in units
\* u * 1e-6
sqft_to_sqmeters_exact(a) == BigMulSmall(a, 92903)

analyze_buffers(center_x, center_y, ps, scale_mpp, cloud_coverage, blur_score, brightness, contrast) ==
    LET radii == get_buffer_radii(scale_mpp)
        buffer1_poly == Buffer(center_x, center_y, radii.buffer_1_px)
        buffer2_poly == Buffer(center_x, center_y, radii.buffer_2_px)
        panel_polygons == [i \in 1..Len(ps) |-> ps[i].polygon]
        detected_b1 == Detected(panel_polygons, buffer1_poly)
        detected_b2 == Detected(panel_polygons, buffer2_poly)
        zone == SelectZone(detected_b1, detected_b2)
        valid_panels == zone.valid_panels
        zone_detected == zone.zone_detected
        merged_panels == merge_panels(valid_panels)
        total_px_area == UnionArea(valid_panels)
        total_sqm == total_px_area * scale_mpp * scale_mpp
        total_sqft == IF merged_panels # NoValue
                        THEN MulE4(total_sqm, 107639)
                        ELSE 0
        qc_status == determine_qc_status(valid_panels # <<>>, total_sqft,
                         zone_detected, cloud_coverage, blur_score,
                         brightness, contrast)
        valid_panel_indices == ValidPanelIndices(valid_panels, panel_polygons)
        valid_panel_areas_sqm ==
            [i \in 1..Len(valid_panels) |->
                Area(valid_panels[i]) * scale_mpp * scale_mpp]
        panel_count == Len(valid_panels)
    IN  [status |-> zone.status,
         zone_id |-> zone_detected,
         qc_status |-> qc_status,
         total_area_sqft |-> total_sqft,
         total_area_sqm |-> MulE6(total_sqft, 92903),
         \* the same product without rounding, in 1e-14 sqm
         total_area_sqm_exact |->
             IF merged_panels # NoValue
               THEN sqft_to_sqmeters_exact(sqm_to_sqft_exact(BigOf(total_sqm)))
               ELSE <<>>,
         panel_count |-> panel_count,
         avg_panel_area_sqm |->
             IF panel_count > 0
               THEN SumSeq(valid_panel_areas_sqm) \div panel_count ELSE 0,
         max_panel_area_sqm |->
             IF valid_panel_areas_sqm # <<>>
               THEN MaxSeq(valid_panel_areas_sqm) ELSE 0,
         min_panel_area_sqm |->
             IF valid_panel_areas_sqm # <<>>
               THEN MinSeq(valid_panel_areas_sqm) ELSE 0,
         valid_panel_indices |-> valid_panel_indices,
         valid_panel_areas_sqm |-> valid_panel_areas_sqm,
         \* the local valid_panels (the candidate list itself)
         valid_panels |-> valid_panels,
         \* result["geometry"]
         merged_panels |-> merged_panels,
         buffer_1 |-> buffer1_poly,
         buffer_2 |-> buffer2_poly]

\* the candidate lists one call of analyze_buffers builds: both list
\* comprehensions run before the zone is chosen
analyze_buffers_computed(ps) == {"detected_b1", "detected_b2"}

(***************************************************************************)
(* main.py main and final_main.py process_sample                           *)
(***************************************************************************)
\* variant: the "overexposed" entry missing from the table
reason_map_no_overexposed(reason) ==
    CASE reason = "heavy_cloud"    -> "cloud_coverage"
      [] reason = "low_resolution" -> "blur"
      [] reason = "heavy_shadow"   -> "brightness"
      [] reason = "low_contrast"   -> "contrast"
      [] OTHER                     -> "image_quality"

\* reason_map.get(reason, "image_quality")
reason_map(reason) ==
    CASE reason = "heavy_cloud"    -> "cloud_coverage"
      [] reason = "low_resolution" -> "blur"
      [] reason = "heavy_shadow"   -> "brightness"
      [] reason = "overexposed"    -> "brightness"
      [] reason = "low_contrast"   -> "contrast"
      [] OTHER                     -> "image_quality"

\* the strings analyze_buffers can hand over that start with "VERIFIABLE"
StartsWithVerifiable(str) ==
    str \in {"VERIFIABLE (present)", "VERIFIABLE (not present)"}

map_qc_base(qc_status_str) ==
    IF StartsWithVerifiable(qc_status_str) THEN "VERIFIABLE"
    ELSE "NOT_VERIFIABLE"

\* mean confidence of the detections, rounded to 2 decimals (1e-4 units)
AvgConfidence(ps) ==
    LET confidences == [i \in 1..Len(ps) |-> ps[i].confidence]
    IN  IF confidences # <<>>
          THEN Round((SumSeq(confidences) * 100) \div Len(confidences), 100)
          ELSE 0

Init ==
    /\ variant \in {"main", "final"}
    /\ input_mode \in (IF variant = "main" THEN {"image", "latlon"}
                                           ELSE {"latlon"})
    /\ pc = "init"
    /\ image_source = ""          \* no source yet (None / "")
    /\ img = NoValue
    /\ scale = METERS_PER_PIXEL_DEFAULT
    /\ gate = NoValue
    /\ panels = <<>>
    /\ result = NoValue
    /\ computed = {}
    /\ out = NoValue
    /\ calls = <<>>
    /\ cli = NoValue
    /\ tester = NoValue
    /\ batch = NoValue
    /\ calc = NoValue

\* main.py: cv2.imread(args.image) returns an image
LoadLocalImage ==
    /\ pc = "init" /\ variant = "main" /\ input_mode = "image"
    /\ \E i \in Images : img' = i
    /\ image_source' = "local"
    /\ calls' = Append(calls, "imread")
    /\ pc' = "loaded"
    /\ UNCHANGED <<cli, tester, batch, calc, variant, input_mode, scale, gate, panels, result,
                   computed, out>>

\* main.py: cv2.imread returns None; main prints an error and returns
LoadLocalImageFail ==
    /\ pc = "init" /\ variant = "main" /\ input_mode = "image"
    /\ image_source' = "local"
    /\ calls' = Append(calls, "imread")
    /\ pc' = "aborted"
    /\ UNCHANGED <<cli, tester, batch, calc, variant, input_mode, img, scale, gate, panels, result,
                   computed, out>>

\* fetch_satellite_image returns (final_img, target_scale); failed tiles are
\* left blank, the scale is always the 0.15 default
FetchImage ==
    /\ pc = "init" /\ input_mode = "latlon"
    /\ \E i \in Images : img' = i
    /\ scale' = METERS_PER_PIXEL_DEFAULT
    /\ image_source' = "Google Maps"
    /\ calls' = Append(calls, "fetch_satellite_image")
    /\ pc' = "loaded"
    /\ UNCHANGED <<cli, tester, batch, calc, variant, input_mode, gate, panels, result, computed, out>>

QualityCheck ==
    /\ pc = "loaded"
    /\ gate' = is_verifiable(img)
    /\ calls' = Append(calls, "is_verifiable")
    /\ pc' = "checked"
    /\ UNCHANGED <<cli, tester, batch, calc, variant, input_mode, image_source, img, scale, panels,
                   result, computed, out>>

\* variant: the branch writes its record but does not return, so the driver
\* runs on into the detection
EmitNotVerifiable_no_return ==
    /\ pc = "checked" /\ ~gate.ok
    /\ out' = [has_solar |-> FALSE,
               confidence |-> 0,
               pv_area_sqm_est |-> 0,
               buffer_radius_sqft |-> 2400,
               qc_status |-> "NOT_VERIFIABLE (" \o reason_map(gate.reason) \o ")",
               bbox_or_mask |-> IF variant = "main" THEN "N/A"
                                ELSE "segmentation_mask",
               source |-> image_source]
    /\ \E ps \in PanelLists : panels' = ps
    /\ calls' = Append(calls, "predict")
    /\ pc' = "predicted"
    /\ UNCHANGED <<cli, tester, batch, calc, variant, input_mode, image_source,
                   img, scale, gate, result, computed>>

\* the "if not is_verifiable:" branch of both drivers
EmitNotVerifiable ==
    /\ pc = "checked" /\ ~gate.ok
    /\ LET qc_reason == reason_map(gate.reason)
       IN  out' = [has_solar |-> FALSE,
                   confidence |-> 0,
                   pv_area_sqm_est |-> 0,
                   buffer_radius_sqft |-> 2400,
                   qc_status |-> "NOT_VERIFIABLE (" \o qc_reason \o ")",
                   bbox_or_mask |-> IF variant = "main" THEN "N/A"
                                    ELSE "segmentation_mask",
                   source |-> image_source]
    /\ pc' = "done"
    /\ UNCHANGED <<cli, tester, batch, calc, variant, input_mode, image_source, img, scale, gate,
                   panels, result, computed, calls>>

\* main.py: SolarPredictor(args.model) raises; main prints and returns
LoadModelFail ==
    /\ pc = "checked" /\ gate.ok /\ variant = "main"
    /\ calls' = Append(calls, "SolarPredictor")
    /\ pc' = "aborted"
    /\ UNCHANGED <<cli, tester, batch, calc, variant, input_mode, image_source, img, scale, gate,
                   panels, result, computed, out>>

\* variant: detection started without looking at the gate's verdict
Predict_no_gate ==
    /\ pc = "checked"
    /\ \E ps \in PanelLists : panels' = ps
    /\ calls' = Append(calls, "predict")
    /\ pc' = "predicted"
    /\ UNCHANGED <<cli, tester, batch, calc, variant, input_mode, image_source, img, scale, gate,
                   result, computed, out>>

Predict ==
    /\ pc = "checked" /\ gate.ok
    /\ \E ps \in PanelLists : panels' = ps
    /\ calls' = Append(calls, "predict")
    /\ pc' = "predicted"
    /\ UNCHANGED <<cli, tester, batch, calc, variant, input_mode, image_source, img, scale, gate,
                   result, computed, out>>

\* variant: the detections outside the outer buffer are dropped from the
\* caller's list
AnalyzeBuffers_filters_in_place ==
    /\ pc = "predicted"
    /\ LET m == gate.metrics
       IN  result' =
             IF variant = "main"
               THEN analyze_buffers(CenterX, CenterY, panels, scale,
                        Get(m, "cloud_coverage", 0),
                        Get(m, "blur_score", 100000),
                        Get(m, "brightness", 50000),
                        Get(m, "contrast", 50000))
               ELSE analyze_buffers(CenterX, CenterY, panels, scale,
                        Get(m, "cloud_coverage", 0),
                        Get(m, "blur_score", 0),
                        Get(m, "brightness", 0),
                        Get(m, "contrast", 0))
    /\ computed' = analyze_buffers_computed(panels)
    /\ calls' = Append(calls, "analyze_buffers")
    /\ pc' = "analyzed"
    /\ panels' = SelectSeq(panels,
                     LAMBDA p : Intersects(p.polygon,
                                    Buffer(CenterX, CenterY,
                                        get_buffer_radii(scale).buffer_2_px)))
    /\ UNCHANGED <<cli, tester, batch, calc, variant, input_mode, image_source, img, scale, gate,
                   out>>

AnalyzeBuffers ==
    /\ pc = "predicted"
    /\ LET m == gate.metrics
       IN  result' =
             IF variant = "main"
               THEN analyze_buffers(CenterX, CenterY, panels, scale,
                        Get(m, "cloud_coverage", 0),
                        Get(m, "blur_score", 100000),
                        Get(m, "brightness", 50000),
                        Get(m, "contrast", 50000))
               ELSE analyze_buffers(CenterX, CenterY, panels, scale,
                        Get(m, "cloud_coverage", 0),
                        Get(m, "blur_score", 0),
                        Get(m, "brightness", 0),
                        Get(m, "contrast", 0))
    /\ computed' = analyze_buffers_computed(panels)
    /\ calls' = Append(calls, "analyze_buffers")
    /\ pc' = "analyzed"
    /\ UNCHANGED <<cli, tester, batch, calc, variant, input_mode, image_source, img, scale, gate,
                   panels, out>>

\* create_visualization draws on a copy of the image
Visualize ==
    /\ pc = "analyzed"
    /\ calls' = Append(calls, "create_visualization")
    /\ pc' = "visualized"
    /\ UNCHANGED <<cli, tester, batch, calc, variant, input_mode, image_source, img, scale, gate,
                   panels, result, computed, out>>

\* variant: the inner radius is reported for every detection
Assemble_radius_by_detection ==
    /\ pc = "visualized"
    /\ out' = [has_solar |-> result.zone_id > 0,
               confidence |-> AvgConfidence(panels),
               pv_area_sqm_est |-> Round(result.total_area_sqm, 100),
               buffer_radius_sqft |-> IF result.zone_id > 0 THEN 1200
                                      ELSE 2400,
               qc_status |-> IF variant = "main" THEN result.qc_status
                             ELSE map_qc_base(result.qc_status),
               bbox_or_mask |-> IF variant = "main" THEN "polygon_mask"
                                ELSE "segmentation_mask",
               source |-> image_source]
    /\ pc' = "done"
    /\ UNCHANGED <<cli, tester, batch, calc, variant, input_mode, image_source, img, scale, gate,
                   panels, result, computed, calls>>

\* variant: the confidence is averaged over the candidate panels
Assemble_confidence_of_candidates ==
    /\ pc = "visualized"
    /\ out' = [has_solar |-> result.zone_id > 0,
               confidence |->
                   AvgConfidence([i \in 1..Len(result.valid_panel_indices) |->
                                     panels[result.valid_panel_indices[i] + 1]]),
               pv_area_sqm_est |-> Round(result.total_area_sqm, 100),
               buffer_radius_sqft |-> IF result.zone_id = 1 THEN 1200
                                      ELSE 2400,
               qc_status |-> IF variant = "main" THEN result.qc_status
                             ELSE map_qc_base(result.qc_status),
               bbox_or_mask |-> IF variant = "main" THEN "polygon_mask"
                                ELSE "segmentation_mask",
               source |-> image_source]
    /\ pc' = "done"
    /\ UNCHANGED <<cli, tester, batch, calc, variant, input_mode, image_source, img, scale, gate,
                   panels, result, computed, calls>>

\* the output record of a completed analysis (main.py output_json,
\* final_main.py process_sample return value)
Assemble ==
    /\ pc = "visualized"
    /\ out' = [has_solar |-> result.zone_id > 0,
               confidence |-> AvgConfidence(panels),
               pv_area_sqm_est |-> Round(result.total_area_sqm, 100),
               buffer_radius_sqft |-> IF result.zone_id = 1 THEN 1200
                                      ELSE 2400,
               qc_status |-> IF variant = "main" THEN result.qc_status
                             ELSE map_qc_base(result.qc_status),
               bbox_or_mask |-> IF variant = "main" THEN "polygon_mask"
                                ELSE "segmentation_mask",
               source |-> image_source]
    /\ pc' = "done"
    /\ UNCHANGED <<cli, tester, batch, calc, variant, input_mode, image_source, img, scale, gate,
                   panels, result, computed, calls>>

Next ==
    \/ LoadLocalImage
    \/ LoadLocalImageFail
    \/ FetchImage
    \/ QualityCheck
    \/ EmitNotVerifiable
    \/ LoadModelFail
    \/ Predict
    \/ AnalyzeBuffers
    \/ Visualize
    \/ Assemble

Spec == Init /\ [][Next]_vars

(***************************************************************************)
(* Properties                                                              *)
(***************************************************************************)
Checked  == pc \in {"checked", "predicted", "analyzed", "visualized", "done"}
         /\ gate # NoValue
Analyzed == pc \in {"analyzed", "visualized", "done"} /\ result # NoValue

\* the checks an image violates, by the documented thresholds
\* (cloud > 0.30, blur < 100, brightness < 30, brightness > 240, contrast < 20)
FailingChecks(image) ==
    {r \in {"heavy_cloud", "low_resolution", "heavy_shadow", "overexposed",
            "low_contrast"} :
        \/ r = "heavy_cloud"    /\ image.cloud > 3000
        \/ r = "low_resolution" /\ image.blur < 100000
        \/ r = "heavy_shadow"   /\ image.brightness < 30000
        \/ r = "overexposed"    /\ image.brightness > 240000
        \/ r = "low_contrast"   /\ image.contrast < 20000}

\* position of a reason in the order cloud, blur, brightness, contrast
CheckRank(r) ==
    CASE r = "heavy_cloud"    -> 1
      [] r = "low_resolution" -> 2
      [] r = "heavy_shadow"   -> 3
      [] r = "overexposed"    -> 3
      [] r = "low_contrast"   -> 4
      [] OTHER                -> 5

\* C1: when an image violates one or more thresholds, is_verifiable reports
\* a violated check, and none of the violated checks comes earlier in the
\* order cloud, blur, brightness, contrast than the one reported
C1_FirstFailingCheckWins ==
    (Checked /\ FailingChecks(img) # {}) =>
        /\ ~gate.ok
        /\ gate.reason \in FailingChecks(img)
        /\ \A r \in FailingChecks(img) : CheckRank(gate.reason) <= CheckRank(r)

\* cloudCoverage = 0.5 with blurScore = 1 was reported as heavy_cloud
C1_Witness ==
    /\ Checked
    /\ img.cloud = 5000 /\ img.blur = 1000
    /\ Cardinality(FailingChecks(img)) >= 2
    /\ gate.reason = "heavy_cloud"

\* C2: is_verifiable answers (true, clear_image) exactly when
\* cloud <= 0.30, blur >= 100, 30 <= brightness <= 240 and contrast >= 20;
\* a value on a threshold passes
C2_ClearImageIff ==
    Checked =>
        /\ gate.ok <=> (/\ img.cloud <= 3000
                        /\ img.blur >= 100000
                        /\ img.brightness >= 30000
                        /\ img.brightness <= 240000
                        /\ img.contrast >= 20000)
        /\ gate.ok <=> (gate.reason = "clear_image")

\* an image with blur exactly 100, cloud exactly 0.30, brightness exactly 30
\* and contrast exactly 20 passed the gate
C2_Witness ==
    /\ Checked
    /\ img.blur = 100000 /\ img.cloud = 3000
    /\ img.brightness = 30000 /\ img.contrast = 20000
    /\ gate.ok /\ gate.reason = "clear_image"

\* the polygons the detector returned, in input order
InputPolygons == [i \in 1..Len(panels) |-> panels[i].polygon]

\* C3 (as stated): once the gate has passed, analyze_buffers' qc_status is
\* "VERIFIABLE (present)" for a non-empty candidate set and
\* "VERIFIABLE (not present)" otherwise, never "NOT_VERIFIABLE ..."
C3_GatePassedStatusVerifiable ==
    (Analyzed /\ gate.ok) =>
        result.qc_status = IF result.valid_panels # <<>>
                             THEN "VERIFIABLE (present)"
                             ELSE "VERIFIABLE (not present)"

\* C4 (as stated): zone 1 is reported whenever a panel meets buffer 1, and
\* in that case buffer 2's candidate list is not computed
C4_Buffer2NotComputedInZone1 ==
    Analyzed =>
        /\ (\E i \in 1..Len(panels) :
               Intersects(panels[i].polygon, result.buffer_1))
             => result.zone_id = 1
        /\ result.zone_id = 1 => "detected_b2" \notin computed

\* C4 (amended): zone 1 is reported exactly when some panel meets buffer 1
\* (a panel meeting both buffers included); zone 2 only when no panel meets
\* buffer 1 and some panel meets buffer 2; buffer 2's candidate list is
\* built on every call but becomes the candidate list only in zone 2
C4_ZonePriority ==
    Analyzed =>
        LET in1 == {i \in 1..Len(panels) :
                      Intersects(panels[i].polygon, result.buffer_1)}
            in2 == {i \in 1..Len(panels) :
                      Intersects(panels[i].polygon, result.buffer_2)}
        IN  /\ (in1 # {}) <=> (result.zone_id = 1)
            /\ (in1 = {} /\ in2 # {}) <=> (result.zone_id = 2)
            /\ result.zone_id = 1 =>
                 \A j \in 1..Len(result.valid_panels) :
                    Intersects(result.valid_panels[j], result.buffer_1)
            /\ computed = {"detected_b1", "detected_b2"}

\* a panel meeting both buffers next to a panel meeting buffer 2 only:
\* zone 1 was reported and the ring panel is no candidate
C4_Witness ==
    /\ Analyzed
    /\ \E i, j \in 1..Len(panels) :
          /\ panels[i].polygon = RectInner
          /\ panels[j].polygon = RectRing
    /\ result.zone_id = 1
    /\ result.panel_count = 1

\* C5: the candidate list is the list of ALL input polygons meeting the
\* winning buffer, in input order: buffer 1 for zone 1, buffer 2 for zone 2,
\* nothing for zone 0
C5_CandidatesAreAllIntersecting ==
    Analyzed =>
        result.valid_panels =
            CASE result.zone_id = 1 ->
                   SelectSeq(InputPolygons,
                             LAMBDA q : Intersects(q, result.buffer_1))
              [] result.zone_id = 2 ->
                   SelectSeq(InputPolygons,
                             LAMBDA q : Intersects(q, result.buffer_2))
              [] OTHER -> <<>>

\* two panels meet the winning buffer and both are candidates
C5_Witness ==
    /\ Analyzed
    /\ result.zone_id \in {1, 2}
    /\ Len(result.valid_panels) = 2
    /\ result.valid_panels[1] # result.valid_panels[2]

\* the metrics of the healthy scenarios: cloud 0.1, blur 200, brightness 120,
\* contrast 60
HealthyImage == [cloud |-> 1000, blur |-> 200000, brightness |-> 120000,
                 contrast |-> 60000]

C7_PanelCountMatchesIndices ==
    Analyzed =>
        /\ result.zone_id \in {1, 2} =>
             /\ result.panel_count = Len(result.valid_panel_indices)
             /\ result.panel_count >= 1
        /\ result.panel_count >= 1 => result.zone_id \in {1, 2}

\* two detections with the same polygon are both candidates
C7_Witness ==
    /\ Analyzed
    /\ result.zone_id \in {1, 2}
    /\ result.panel_count = 2
    /\ result.valid_panels[1] = result.valid_panels[2]

\* C8: after a gate failure the record's qc_status is "NOT_VERIFIABLE (r)"
\* with r given by heavy_cloud -> cloud_coverage, low_resolution -> blur,
\* heavy_shadow / overexposed -> brightness, low_contrast -> contrast;
\* "NOT_VERIFIABLE (image_quality)" is never emitted
C8_FailureReasonMapped ==
    /\ (Checked /\ ~gate.ok /\ pc = "done") =>
         \/ gate.reason = "heavy_cloud"
              /\ out.qc_status = "NOT_VERIFIABLE (cloud_coverage)"
         \/ gate.reason = "low_resolution"
              /\ out.qc_status = "NOT_VERIFIABLE (blur)"
         \/ gate.reason \in {"heavy_shadow", "overexposed"}
              /\ out.qc_status = "NOT_VERIFIABLE (brightness)"
         \/ gate.reason = "low_contrast"
              /\ out.qc_status = "NOT_VERIFIABLE (contrast)"
    /\ out # NoValue => out.qc_status # "NOT_VERIFIABLE (image_quality)"

\* an overexposed image produced a record
C8_Witness ==
    /\ pc = "done" /\ gate # NoValue /\ ~gate.ok
    /\ gate.reason = "overexposed"
    /\ out.qc_status = "NOT_VERIFIABLE (brightness)"

QcStatusValues ==
    {"NOT_VERIFIABLE (cloud_coverage)", "NOT_VERIFIABLE (blur)",
     "NOT_VERIFIABLE (brightness)", "NOT_VERIFIABLE (contrast)",
     "VERIFIABLE (present)", "VERIFIABLE (not present)"}

\* C9 (as stated): every emitted record carries one of the six qc_status
\* strings
C9_QcStatusOneOfSix ==
    out # NoValue => out.qc_status \in QcStatusValues

Called(name) == \E i \in 1..Len(calls) : calls[i] = name

\* C10: the gate runs before the detector, and after a gate failure the
\* detector, analyze_buffers and the visualizer are never called, the only
\* step left is the one that emits the record, and that record has
\* has_solar = false, confidence = 0, pv_area_sqm_est = 0 and
\* buffer_radius_sqft = 2400
C10_GateShortCircuits ==
    /\ \A i \in 1..Len(calls) :
          calls[i] \in {"predict", "analyze_buffers", "create_visualization"}
            => \E j \in 1..(i - 1) : calls[j] = "is_verifiable"
    /\ (Checked /\ ~gate.ok) =>
          /\ ~Called("predict")
          /\ ~Called("analyze_buffers")
          /\ ~Called("create_visualization")
          /\ result = NoValue
          /\ pc \in {"checked", "done"}
          /\ pc = "checked" => ENABLED EmitNotVerifiable
          /\ pc = "done" =>
                /\ out # NoValue
                /\ out.has_solar = FALSE
                /\ out.confidence = 0
                /\ out.pv_area_sqm_est = 0
                /\ out.buffer_radius_sqft = 2400

\* a record was emitted for an image that failed the gate
C10_Witness ==
    /\ pc = "done" /\ gate # NoValue /\ ~gate.ok
    /\ out # NoValue /\ out.buffer_radius_sqft = 2400
    /\ ~Called("predict")

\* position of a stage in the pass
StageRank(p) ==
    CASE p = "init"       -> 0
      [] p = "loaded"     -> 1
      [] p = "checked"    -> 2
      [] p = "predicted"  -> 3
      [] p = "analyzed"   -> 4
      [] p = "visualized" -> 5
      [] OTHER            -> 6

RecordFields == {"has_solar", "confidence", "pv_area_sqm_est",
                 "buffer_radius_sqft", "qc_status", "bbox_or_mask", "source"}

\* C11: a run is one pass: every step moves to a later stage (no stage is
\* visited twice); a record exists exactly in the terminal stage, it is
\* complete, and it comes either from the NOT_VERIFIABLE branch (gate failed,
\* no zone work) or from the assembly after exactly one zone outcome 0, 1 or
\* 2; a run without record ends only where the image could not be read or
\* the model could not be loaded, never inside the quality check or the
\* buffer analysis; and before its end a run can always take its next step
\* (with the strictly growing stage: every run ends after at most 6 steps);
\* the buffer analysis is a total function, its step always yields a result
C11_SinglePass ==
    /\ [][StageRank(pc') > StageRank(pc)]_vars
    /\ [](out # NoValue <=> pc = "done")
    /\ [](pc = "done" =>
            /\ DOMAIN out = RecordFields
            /\ \/ ~gate.ok /\ result = NoValue
               \/ gate.ok /\ result # NoValue /\ result.zone_id \in {0, 1, 2})
    /\ [](pc = "aborted" =>
            calls[Len(calls)] \in {"imread", "SolarPredictor"})
    /\ [][pc = "predicted" =>
            pc' = "analyzed" /\ result' # NoValue /\ result'.zone_id \in {0, 1, 2}]_vars
    /\ [](/\ pc = "init"       => ENABLED (LoadLocalImage \/ FetchImage)
          /\ pc = "loaded"     => ENABLED QualityCheck
          /\ pc = "checked"    => ENABLED (EmitNotVerifiable \/ Predict)
          /\ pc = "analyzed"   => ENABLED Visualize
          /\ pc = "visualized" => ENABLED Assemble)

\* a run went through every stage and assembled a zone-2 record
C11_Witness ==
    /\ pc = "done"
    /\ result # NoValue /\ result.zone_id = 2
    /\ calls = <<"fetch_satellite_image", "is_verifiable", "predict",
                 "analyze_buffers", "create_visualization">>
    /\ DOMAIN out = RecordFields

(***************************************************************************)
(* buffer_tester.py: the stand-alone run of the buffer logic on one image  *)
(***************************************************************************)
METERS_PER_PIXEL == 15

\* meters_to_pixels(area_to_radius_meters(sqft_to_sqmeters(sqft)), scale):
\* the square of the pixel radius, floored (the helper functions of
\* buffer_tester.py are copies of those of geometry.py)
meters_to_pixels(sqft, scale_mpp) ==
    area_to_radius_meters(sqft_to_sqmeters(sqft)) \div (100 * scale_mpp * scale_mpp)

\* the summing loop: total_area_pixels += p.area for every panel that
\* intersects check_poly
RECURSIVE TesterTotalPixels(_)
TesterTotalPixels(valid_panels) ==
    IF valid_panels = <<>> THEN 0
    ELSE Area(Head(valid_panels)) + TesterTotalPixels(Tail(valid_panels))

\* "CORE LOGIC START" .. "CORE LOGIC END": buffer 1 is tested first, buffer 2
\* only when buffer 1 has no match; the areas of the candidates are added up
TesterCoreLogic(tpanels) ==
    LET buffer_1_poly == Buffer(CenterX, CenterY, meters_to_pixels(BUFFER_1_SQFT, METERS_PER_PIXEL))
        buffer_2_poly == Buffer(CenterX, CenterY, meters_to_pixels(BUFFER_2_SQFT, METERS_PER_PIXEL))
        in_buffer_1 == \E i \in 1..Len(tpanels) : Intersects(tpanels[i], buffer_1_poly)
        in_buffer_2 == \E i \in 1..Len(tpanels) : Intersects(tpanels[i], buffer_2_poly)
        check_poly == IF in_buffer_1 THEN buffer_1_poly
                      ELSE IF in_buffer_2 THEN buffer_2_poly ELSE NoValue
        valid_panels == IF check_poly # NoValue
                          THEN Detected(tpanels, check_poly) ELSE <<>>
        total_area_pixels == TesterTotalPixels(valid_panels)
        total_area_sqm == total_area_pixels * METERS_PER_PIXEL * METERS_PER_PIXEL
    IN  [zone_status |-> IF in_buffer_1 THEN "Found in Buffer 1 (1200 sq.ft)"
                         ELSE IF in_buffer_2 THEN "Found in Buffer 2 (2400 sq.ft)"
                         ELSE "No Solar in Buffer",
         checked_b2 |-> ~in_buffer_1,
         check_poly |-> check_poly,
         valid_panels |-> valid_panels,
         total_area_pixels |-> total_area_pixels,
         total_area_sqm |-> total_area_sqm,
         total_area_sqft |-> MulE4(total_area_sqm, 107639)]

\* the variables of the two drivers while another program of the repository
\* runs: nothing loaded, nothing computed
DriversIdle(name) ==
    /\ variant = name
    /\ input_mode = "image"
    /\ pc = "init"
    /\ image_source = ""
    /\ img = NoValue
    /\ scale = METERS_PER_PIXEL_DEFAULT
    /\ gate = NoValue
    /\ panels = <<>>
    /\ result = NoValue
    /\ computed = {}
    /\ out = NoValue
    /\ calls = <<>>

InitTester ==
    /\ cli = NoValue
    /\ DriversIdle("buffer_tester")
    /\ tester = [pc |-> "start"]
    /\ batch = NoValue
    /\ calc = NoValue

\* os.path.exists fails for the model or the image, or cv2.imread returns
\* None: main prints an error and returns
TesterAbort ==
    /\ tester.pc = "start"
    /\ tester' = [pc |-> "aborted"]
    /\ UNCHANGED <<cli, variant, input_mode, pc, image_source, img, scale,
                   gate,
                   panels, result, computed, out, calls, batch, calc>>

\* YOLO(MODEL_PATH) and cv2.imread(IMAGE_FILE) succeed
TesterLoad ==
    /\ tester.pc = "start"
    /\ tester' = [pc |-> "loaded"]
    /\ UNCHANGED <<cli, variant, input_mode, pc, image_source, img, scale,
                   gate,
                   panels, result, computed, out, calls, batch, calc>>

\* model.predict and the extraction of one polygon per mask
TesterPredict ==
    /\ tester.pc = "loaded"
    /\ \E ps \in PanelLists :
         tester' = [pc |-> "predicted", results |-> ps,
                    panels |-> [i \in 1..Len(ps) |-> ps[i].polygon]]
    /\ UNCHANGED <<cli, variant, input_mode, pc, image_source, img, scale,
                   gate,
                   panels, result, computed, out, calls, batch, calc>>

TesterCore ==
    /\ tester.pc = "predicted"
    /\ tester' = [pc |-> "done", results |-> tester.results,
                  panels |-> tester.panels,
                  core |-> TesterCoreLogic(tester.panels)]
    /\ UNCHANGED <<cli, variant, input_mode, pc, image_source, img, scale,
                   gate,
                   panels, result, computed, out, calls, batch, calc>>

NextTester ==
    \/ TesterAbort
    \/ TesterLoad
    \/ TesterPredict
    \/ TesterCore

SpecTester == InitTester /\ [][NextTester]_vars

\* the area of the set of points covered by at least one rectangle of s,
\* measured cell by cell on the grid spanned by the rectangles' coordinates
CoveredArea(s) ==
    LET I  == 1..Len(s)
        Xs == {s[i][1] : i \in I} \cup {s[i][3] : i \in I}
        Ys == {s[i][2] : i \in I} \cup {s[i][4] : i \in I}
        XI == {c \in Xs \X Xs : c[1] < c[2] /\ ~\E m \in Xs : c[1] < m /\ m < c[2]}
        YI == {c \in Ys \X Ys : c[1] < c[2] /\ ~\E m \in Ys : c[1] < m /\ m < c[2]}
        Cells == {c \in XI \X YI :
                    \E i \in I : /\ s[i][1] <= c[1][1] /\ c[1][2] <= s[i][3]
                                 /\ s[i][2] <= c[2][1] /\ c[2][2] <= s[i][4]}
    IN  SumOver(Cells, [c \in Cells |-> (c[1][2] - c[1][1]) * (c[2][2] - c[2][1])])

\* two rectangles share more than boundary points
Overlap(p, q) ==
    /\ Max2(p[1], q[1]) < Min2(p[3], q[3])
    /\ Max2(p[2], q[2]) < Min2(p[4], q[4])

SomeOverlap(s) ==
    \E i \in 1..Len(s) : \E j \in 1..Len(s) : i # j /\ Overlap(s[i], s[j])

\* C12: wherever a total area is reported it is the area of the union of the
\* candidate polygons: at most the sum of the candidates' areas, equal to
\* the sum exactly when no two candidates overlap (analyze_buffers and the
\* core logic of buffer_tester.py)
C12_TotalAreaFromUnion ==
    /\ Analyzed =>
         /\ result.total_area_sqft =
              MulE4(CoveredArea(result.valid_panels) * scale * scale, 107639)
         /\ CoveredArea(result.valid_panels) <= TesterTotalPixels(result.valid_panels)
    /\ (tester # NoValue /\ tester.pc = "done") =>
         LET U == CoveredArea(tester.core.valid_panels)
             S == TesterTotalPixels(tester.core.valid_panels)
         IN  /\ tester.core.total_area_pixels = U
             /\ U <= S
             /\ (U = S) <=> ~SomeOverlap(tester.core.valid_panels)

\* analyze_buffers alone: its total is derived from the area of the union,
\* which is below the sum of the areas exactly when candidates overlap
C12_CoreUsesUnion ==
    Analyzed =>
      LET U == CoveredArea(result.valid_panels)
          S == TesterTotalPixels(result.valid_panels)
      IN  /\ result.total_area_sqft = MulE4(U * scale * scale, 107639)
          /\ U <= S
          /\ (U = S) <=> ~SomeOverlap(result.valid_panels)

\* C13: in the output record has_solar is true exactly when zone_id > 0, and
\* buffer_radius_sqft is 1200 exactly when zone_id = 1, 2400 otherwise (zone
\* 0, zone 2, or a quality failure, where no zone was determined)
C13_HasSolarAndRadius ==
    pc = "done" =>
      LET zoned == result # NoValue
      IN  /\ out.has_solar <=> (zoned /\ result.zone_id > 0)
          /\ out.buffer_radius_sqft = 1200 <=> (zoned /\ result.zone_id = 1)
          /\ out.buffer_radius_sqft # 1200 => out.buffer_radius_sqft = 2400
          /\ ~zoned => ~gate.ok

\* a zone-2 record: solar present, outer radius reported
C13_Witness ==
    /\ pc = "done"
    /\ result # NoValue /\ result.zone_id = 2
    /\ out.has_solar /\ out.buffer_radius_sqft = 2400

(***************************************************************************)
(* final_main.py main: the batch over the rows of the input table          *)
(***************************************************************************)
MaxRows == 3

\* the images and detections the rows of a batch are drawn from
BatchSamples ==
    {[image |-> i, detections |-> d] :
        i \in {HealthyImage, [HealthyImage EXCEPT !.cloud = 5000]},
        d \in {<<>>, <<[polygon |-> RectInner, confidence |-> 90]>>}}

\* the places inside the try block where an exception can be raised
BatchErrors == {"int(sample_id)", "fetch_satellite_image", "predict"}

\* process_sample as one function of what was fetched and detected: the
\* record it returns (sample_id is added by the caller of this operator)
process_sample(image, ps) ==
    LET g == is_verifiable(image)
        m == g.metrics
        r == analyze_buffers(CenterX, CenterY, ps, METERS_PER_PIXEL_DEFAULT,
                 Get(m, "cloud_coverage", 0), Get(m, "blur_score", 0),
                 Get(m, "brightness", 0), Get(m, "contrast", 0))
    IN  IF ~g.ok
          THEN [has_solar |-> FALSE,
                confidence |-> 0,
                pv_area_sqm_est |-> 0,
                buffer_radius_sqft |-> 2400,
                qc_status |-> "NOT_VERIFIABLE (" \o reason_map(g.reason) \o ")",
                bbox_or_mask |-> "segmentation_mask",
                source |-> "Google Maps"]
          ELSE [has_solar |-> r.zone_id > 0,
                confidence |-> AvgConfidence(ps),
                pv_area_sqm_est |-> Round(r.total_area_sqm, 100),
                buffer_radius_sqft |-> IF r.zone_id = 1 THEN 1200 ELSE 2400,
                qc_status |-> map_qc_base(r.qc_status),
                bbox_or_mask |-> "segmentation_mask",
                source |-> "Google Maps"]

\* n rows in the table; nothing read yet
InitBatch ==
    /\ cli = NoValue
    /\ DriversIdle("final_main")
    /\ tester = NoValue
    /\ calc = NoValue
    /\ \E n \in 0..MaxRows :
         batch = [pc |-> "start", n |-> n, i |-> 1, order |-> <<>>,
                  results |-> <<>>, files |-> {}, log |-> <<>>]

\* the table is read, the columns are there, the model is loaded
BatchStart ==
    /\ batch.pc = "start"
    /\ batch' = [batch EXCEPT !.pc = "loop"]
    /\ UNCHANGED <<cli, variant, input_mode, pc, image_source, img, scale,
                   gate,
                   panels, result, computed, out, calls, tester, calc>>

\* unsupported format, missing column or SolarPredictor raising: the
\* exception leaves main before the loop
BatchStartFail ==
    /\ batch.pc = "start"
    /\ batch' = [batch EXCEPT !.pc = "crashed"]
    /\ UNCHANGED <<cli, variant, input_mode, pc, image_source, img, scale,
                   gate,
                   panels, result, computed, out, calls, tester, calc>>

\* one iteration whose try block runs to its end: the record is written to
\* output_<sample_id>.json and the path is appended to results
BatchRowOk ==
    /\ batch.pc = "loop" /\ batch.i <= batch.n
    /\ \E s \in BatchSamples :
         LET rec == [sample_id |-> batch.i,
                     record |-> process_sample(s.image, s.detections)]
         IN  batch' = [batch EXCEPT !.i = batch.i + 1,
                                    !.order = Append(batch.order, batch.i),
                                    !.files = batch.files \cup {rec},
                                    !.results = Append(batch.results, batch.i)]
    /\ UNCHANGED <<cli, variant, input_mode, pc, image_source, img, scale,
                   gate,
                   panels, result, computed, out, calls, tester, calc>>

\* variant: the exception of a row leaves main
BatchRowRaise_abort ==
    /\ batch.pc = "loop" /\ batch.i <= batch.n
    /\ \E e \in BatchErrors :
         batch' = [batch EXCEPT !.pc = "crashed",
                                !.order = Append(batch.order, batch.i),
                                !.log = Append(batch.log,
                                          [sample_id |-> batch.i, error |-> e])]
    /\ UNCHANGED <<cli, variant, input_mode, pc, image_source, img, scale,
                   gate,
                   panels, result, computed, out, calls, tester, calc>>

\* one iteration whose try block raises: "except Exception as e" prints
\* the error and the loop goes on with the next row
BatchRowRaise ==
    /\ batch.pc = "loop" /\ batch.i <= batch.n
    /\ \E e \in BatchErrors :
         batch' = [batch EXCEPT !.i = batch.i + 1,
                                !.order = Append(batch.order, batch.i),
                                !.log = Append(batch.log,
                                          [sample_id |-> batch.i, error |-> e])]
    /\ UNCHANGED <<cli, variant, input_mode, pc, image_source, img, scale,
                   gate,
                   panels, result, computed, out, calls, tester, calc>>

\* the loop is over: "Batch complete. Outputs:" and the list of results
BatchComplete ==
    /\ batch.pc = "loop" /\ batch.i > batch.n
    /\ batch' = [batch EXCEPT !.pc = "complete"]
    /\ UNCHANGED <<cli, variant, input_mode, pc, image_source, img, scale,
                   gate,
                   panels, result, computed, out, calls, tester, calc>>

NextBatch ==
    \/ BatchStart
    \/ BatchStartFail
    \/ BatchRowOk
    \/ BatchRowRaise
    \/ BatchComplete

SpecBatch == InitBatch /\ [][NextBatch]_vars

LoggedIds == {batch.log[k].sample_id : k \in 1..Len(batch.log)}
ResultIds == {batch.results[k] : k \in 1..Len(batch.results)}
Increasing(s) == \A k \in 1..(Len(s) - 1) : s[k] < s[k + 1]

\* C14: a failing sample does not abort the batch: once the loop runs it
\* never leaves main through an exception; the rows are attempted in input
\* order; a failed sample is logged and is not in the success list; the
\* success list holds the other attempted rows in input order; the batch
\* completes only after every row was attempted, and while rows remain an
\* iteration can always run
C14_BatchSurvivesFailure ==
    /\ [][batch.pc = "loop" => batch'.pc \in {"loop", "complete"}]_vars
    /\ [](batch.pc \in {"loop", "complete"} =>
            /\ batch.order = [k \in 1..(batch.i - 1) |-> k]
            /\ LoggedIds \cap ResultIds = {}
            /\ LoggedIds \cup ResultIds = 1..(batch.i - 1)
            /\ Increasing(batch.results)
            /\ Len(batch.log) + Len(batch.results) = batch.i - 1
            /\ ResultIds = {f.sample_id : f \in batch.files})
    /\ [](batch.pc = "complete" => batch.i = batch.n + 1)
    /\ [](batch.pc = "loop" =>
            IF batch.i <= batch.n THEN ENABLED BatchRowOk /\ ENABLED BatchRowRaise
                                  ELSE ENABLED BatchComplete)

\* the first row failed, the later rows were still processed and succeeded
C14_Witness ==
    /\ batch.pc = "complete" /\ batch.n = 3
    /\ LoggedIds = {1}
    /\ batch.results = <<2, 3>>

\* C15: after the batch completes every input sample has a recorded
\* outcome: an output record exists for each row, failed ones included
C15_EveryRowRecorded ==
    batch.pc = "complete" =>
      \A id \in 1..batch.n : \E f \in batch.files : f.sample_id = id

\* C16: when an upstream step failed (the image could not be read, the
\* detector could not be loaded) the run leaves a NOT_VERIFIABLE record, and
\* the quality check, the detection and analyze_buffers were not invoked
C16_UpstreamFailureRecord ==
    pc = "aborted" =>
      /\ out # NoValue
      /\ ~out.has_solar
      /\ out.qc_status \notin {"VERIFIABLE", "VERIFIABLE (present)",
                               "VERIFIABLE (not present)"}
      /\ ~Called("is_verifiable")
      /\ ~Called("predict")
      /\ ~Called("analyze_buffers")

\* n square metres given in 1e-4, written in 1e-14
SqmE14(n) == BigMulSmall(BigMulSmall(BigOf(n), 100000), 100000)

\* C17: the record's total_area_sqm is the merged pixel area times scale
\* squared, exactly, for every candidate set
C17_SqmIsPixelAreaTimesScaleSq ==
    Analyzed =>
      BigNorm(result.total_area_sqm_exact) =
        BigNorm(SqmE14(CoveredArea(result.valid_panels) * scale * scale))

(***************************************************************************)
(* binary64 arithmetic on non-negative numbers, as Python floats compute   *)
(* it: a number is m * 2^e with m given by its 53 bits, lowest bit first   *)
(* (highest bit 1); zero has no bits                                       *)
(***************************************************************************)
FloatZero == [m |-> <<>>, e |-> 0]

\* whole numbers are computed on in digits to the base 2^13, lowest first
DigBits == 13
DigBase == 2 ^ DigBits

\* bits without leading zeros
BinNorm(a) ==
    LET ones == {i \in 1..Len(a) : a[i] = 1}
    IN  IF ones = {} THEN <<>>
        ELSE SubSeq(a, 1, CHOOSE i \in ones : \A j \in ones : j <= i)

\* the bits of n, lowest first, for 0 <= n < 2^31
BinOf(n) == BinNorm([i \in 1..31 |-> (n \div (2 ^ (i - 1))) % 2])

\* k zero bits below a
BinShl(a, k) == [i \in 1..k |-> 0] \o a

\* bits to digits and back
ToDigits(a) ==
    [j \in 1..((Len(a) + DigBits - 1) \div DigBits) |->
        SumOver(1..DigBits,
                [t \in 1..DigBits |->
                    LET i == (j - 1) * DigBits + t
                    IN  IF i <= Len(a) THEN a[i] * 2 ^ (t - 1) ELSE 0])]

ToBits(d) ==
    BinNorm([i \in 1..(DigBits * Len(d)) |->
                (d[((i - 1) \div DigBits) + 1] \div (2 ^ ((i - 1) % DigBits))) % 2])

\* a * k + c on digits, for a small factor k
RECURSIVE DigMulCarry(_, _, _)
DigMulCarry(a, k, c) ==
    IF a = <<>>
      THEN IF c = 0 THEN <<>>
           ELSE <<c % DigBase>> \o DigMulCarry(<<>>, k, c \div DigBase)
    ELSE LET v == Head(a) * k + c
         IN  <<v % DigBase>> \o DigMulCarry(Tail(a), k, v \div DigBase)

\* a + b + c on digits
RECURSIVE DigAdd(_, _, _)
DigAdd(a, b, c) ==
    IF a = <<>> /\ b = <<>> THEN (IF c = 0 THEN <<>> ELSE <<c>>)
    ELSE LET x == IF a = <<>> THEN 0 ELSE Head(a)
             y == IF b = <<>> THEN 0 ELSE Head(b)
             v == x + y + c
         IN  <<v % DigBase>> \o DigAdd(IF a = <<>> THEN a ELSE Tail(a),
                                       IF b = <<>> THEN b ELSE Tail(b),
                                       v \div DigBase)

\* quotient and remainder of the digits a by a small divisor n
RECURSIVE DigDiv(_, _)
DigDiv(a, n) ==
    IF a = <<>> THEN [q |-> <<>>, r |-> 0]
    ELSE LET hi == DigDiv(Tail(a), n)
             v  == hi.r * DigBase + Head(a)
         IN  [q |-> <<v \div n>> \o hi.q, r |-> v % n]

BinMulCarry(a, k, c) == ToBits(DigMulCarry(ToDigits(a), k, c))
BinAdd(a, b, c) == ToBits(DigAdd(ToDigits(a), ToDigits(b), c))
BinDiv(a, n) ==
    LET dd == DigDiv(ToDigits(a), n)
    IN  [q |-> ToBits(dd.q), r |-> dd.r]

\* the nearest binary64 number to a * 2^e, ties to even
FloatRound(bits, e) ==
    LET a == BinNorm(bits)
        L == Len(a)
        d == L - 53
    IN  IF L = 0 THEN FloatZero
        ELSE IF L <= 53 THEN [m |-> BinShl(a, 53 - L), e |-> e - (53 - L)]
        ELSE LET guard  == a[d]
                 sticky == \E i \in 1..(d - 1) : a[i] = 1
                 top    == SubSeq(a, d + 1, L)
                 up     == guard = 1 /\ (sticky \/ top[1] = 1)
                 t      == BinAdd(top, <<1>>, 0)
             IN  IF ~up THEN [m |-> top, e |-> e + d]
                 ELSE IF Len(t) = 54 THEN [m |-> SubSeq(t, 2, 54), e |-> e + d + 1]
                 ELSE [m |-> t, e |-> e + d]

\* x + y
FloatAdd(x, y) ==
    IF x.m = <<>> THEN y
    ELSE IF y.m = <<>> THEN x
    ELSE LET e0 == Min2(x.e, y.e)
         IN  FloatRound(BinAdd(BinShl(x.m, x.e - e0), BinShl(y.m, y.e - e0), 0), e0)

\* x * k for an integer k, 0 <= k < 2^20
FloatMulInt(x, k) == FloatRound(BinMulCarry(x.m, k, 0), x.e)

\* x / n for an integer n, 1 <= n < 2^8: twelve more quotient bits and the
\* remainder as a last bit decide the rounding
FloatDivInt(x, n) ==
    IF x.m = <<>> THEN FloatZero
    ELSE LET qr == BinDiv(BinShl(x.m, 12), n)
         IN  FloatRound(<<IF qr.r > 0 THEN 1 ELSE 0>> \o qr.q, x.e - 13)

\* x <= y
FloatLeq(x, y) ==
    IF x.m = <<>> THEN TRUE
    ELSE IF y.m = <<>> THEN FALSE
    ELSE IF x.e # y.e THEN x.e < y.e
    ELSE BigLeqNorm(ToDigits(x.m), ToDigits(y.m))

\* scale_mpp ** 2 for the default scale 0.15: the binary64 number
\* 0x1.70a3d70a3d70ap-6 (0.0225), its 53 bits given as low 26 and high 27
ScaleSqLow == 10737418
ScaleSqHigh == 96636764
ScaleSqDefault ==
    [m |-> BinAdd(BinOf(ScaleSqLow), BinShl(BinOf(ScaleSqHigh), 26), 0), e |-> -58]

\* sum(values): the additions from left to right, each rounded
RECURSIVE FloatSum(_, _)
FloatSum(values, acc) ==
    IF values = <<>> THEN acc
    ELSE FloatSum(Tail(values), FloatAdd(acc, Head(values)))

\* max(values), min(values) of a non-empty list
RECURSIVE FloatMax(_)
FloatMax(values) ==
    IF Len(values) = 1 THEN values[1]
    ELSE LET r == FloatMax(Tail(values))
         IN  IF FloatLeq(r, Head(values)) THEN Head(values) ELSE r

RECURSIVE FloatMin(_)
FloatMin(values) ==
    IF Len(values) = 1 THEN values[1]
    ELSE LET r == FloatMin(Tail(values))
         IN  IF FloatLeq(Head(values), r) THEN Head(values) ELSE r

\* variant: the statistics run over every detection
panel_statistics_all(panel_polygons) ==
    LET radii == get_buffer_radii(METERS_PER_PIXEL_DEFAULT)
        zone == SelectZone(
                  Detected(panel_polygons, Buffer(CenterX, CenterY, radii.buffer_1_px)),
                  Detected(panel_polygons, Buffer(CenterX, CenterY, radii.buffer_2_px)))
        valid_panels == zone.valid_panels
        valid_panel_areas_sqm ==
            [i \in 1..Len(panel_polygons) |->
                FloatMulInt(ScaleSqDefault, Area(panel_polygons[i]))]
        panel_count == Len(panel_polygons)
    IN  [zone_id |-> zone.zone_detected,
         valid_panels |-> valid_panels,
         valid_panel_areas_sqm |-> valid_panel_areas_sqm,
         avg_panel_area_sqm |->
             IF panel_count > 0
               THEN FloatDivInt(FloatSum(valid_panel_areas_sqm, FloatZero), panel_count)
               ELSE FloatZero,
         max_panel_area_sqm |->
             IF valid_panel_areas_sqm # <<>>
               THEN FloatMax(valid_panel_areas_sqm) ELSE FloatZero,
         min_panel_area_sqm |->
             IF valid_panel_areas_sqm # <<>>
               THEN FloatMin(valid_panel_areas_sqm) ELSE FloatZero]

\* the per-panel statistics of analyze_buffers at the default scale, in
\* binary64: the candidates are chosen as analyze_buffers chooses them, each
\* area is panel.area * (scale_mpp ** 2), avg is sum(...) / panel_count
panel_statistics(panel_polygons) ==
    LET radii == get_buffer_radii(METERS_PER_PIXEL_DEFAULT)
        zone == SelectZone(
                  Detected(panel_polygons, Buffer(CenterX, CenterY, radii.buffer_1_px)),
                  Detected(panel_polygons, Buffer(CenterX, CenterY, radii.buffer_2_px)))
        valid_panels == zone.valid_panels
        valid_panel_areas_sqm ==
            [i \in 1..Len(valid_panels) |->
                FloatMulInt(ScaleSqDefault, Area(valid_panels[i]))]
        panel_count == Len(valid_panels)
    IN  [zone_id |-> zone.zone_detected,
         valid_panels |-> valid_panels,
         valid_panel_areas_sqm |-> valid_panel_areas_sqm,
         avg_panel_area_sqm |->
             IF panel_count > 0
               THEN FloatDivInt(FloatSum(valid_panel_areas_sqm, FloatZero), panel_count)
               ELSE FloatZero,
         max_panel_area_sqm |->
             IF valid_panel_areas_sqm # <<>>
               THEN FloatMax(valid_panel_areas_sqm) ELSE FloatZero,
         min_panel_area_sqm |->
             IF valid_panel_areas_sqm # <<>>
               THEN FloatMin(valid_panel_areas_sqm) ELSE FloatZero]

(***************************************************************************)
(* geometry.py: single calls of the pure functions                         *)
(***************************************************************************)
MaxArea  == 60     \* areas k, 100 k, 10000 k for k in 1..MaxArea (1e-4 sqm)
MaxScale == 200    \* scales 0.01 .. MaxScale / 100 metres per pixel
MaxMerge == 3      \* polygons in one call of merge_panels

AreaValues == {k * m : k \in 1..MaxArea, m \in {1, 100, 10000}}
ScaleValues == 1..MaxScale
MergeLists == UNION {[1..n -> Polygons] : n \in 0..MaxMerge}

MaxStats == 3      \* detections in one call of the panel statistics

\* one module of 11 x 6 px (1.65 m x 0.9 m) next to the centre
RectModule == <<661, 663, 672, 669>>
StatLists == UNION {[1..n -> Polygons \cup {RectModule}] : n \in 0..MaxStats}

\* the bijections of 1..n
Perms(n) == {f \in [1..n -> 1..n] : \A i \in 1..n : \E j \in 1..n : f[j] = i}

\* x sqm (1e-4) to square feet with 10.7639 and back with sqft_to_sqmeters:
\* the value in 1e-14 sqm
AreaRoundTrip(x) == sqft_to_sqmeters_exact(sqm_to_sqft_exact(BigOf(x)))

\* merged_geometry.area
GeomArea(g) == IF g = NoValue THEN 0 ELSE UnionArea(g.union_of)

InitCalc ==
    /\ cli = NoValue
    /\ DriversIdle("geometry")
    /\ tester = NoValue
    /\ batch = NoValue
    /\ \/ \E x \in AreaValues :
            calc = [fn |-> "round_trip", pc |-> "args", x |-> x]
       \/ \E sc \in ScaleValues :
            calc = [fn |-> "get_buffer_radii", pc |-> "args", scale_mpp |-> sc]
       \/ \E ps \in MergeLists : \E pm \in Perms(Len(ps)) : \E k \in 0..Len(ps) :
            calc = [fn |-> "merge_panels", pc |-> "args", polygons |-> ps,
                    perm |-> pm, split |-> k]
       \/ \E ps \in StatLists :
            calc = [fn |-> "panel_statistics", pc |-> "args", polygons |-> ps]

CalcRoundTrip ==
    /\ calc.fn = "round_trip" /\ calc.pc = "args"
    /\ calc' = [fn |-> "round_trip", pc |-> "value", x |-> calc.x,
                value |-> AreaRoundTrip(calc.x)]
    /\ UNCHANGED <<cli, variant, input_mode, pc, image_source, img, scale,
                   gate,
                   panels, result, computed, out, calls, tester, batch>>

CalcBufferRadii ==
    /\ calc.fn = "get_buffer_radii" /\ calc.pc = "args"
    /\ calc' = [fn |-> "get_buffer_radii", pc |-> "value",
                scale_mpp |-> calc.scale_mpp,
                value |-> get_buffer_radii(calc.scale_mpp)]
    /\ UNCHANGED <<cli, variant, input_mode, pc, image_source, img, scale,
                   gate,
                   panels, result, computed, out, calls, tester, batch>>

\* merge_panels on the list, on the permuted list, and on the two parts of
\* the list cut at the split position
CalcMerge ==
    /\ calc.fn = "merge_panels" /\ calc.pc = "args"
    /\ LET ps == calc.polygons
           n  == Len(ps)
       IN  calc' = [fn |-> "merge_panels", pc |-> "value", polygons |-> ps,
                    perm |-> calc.perm, split |-> calc.split,
                    value |-> merge_panels(ps),
                    permuted |-> merge_panels([i \in 1..n |-> ps[calc.perm[i]]]),
                    left |-> merge_panels(SubSeq(ps, 1, calc.split)),
                    right |-> merge_panels(SubSeq(ps, calc.split + 1, n))]
    /\ UNCHANGED <<cli, variant, input_mode, pc, image_source, img, scale,
                   gate,
                   panels, result, computed, out, calls, tester, batch>>

\* the polygons a merged geometry is made of (geometry.geoms); nothing for
\* None
Geoms(g) == IF g = NoValue THEN <<>> ELSE g.union_of

\* merge_panels called again: on the result of the first call, and on the
\* list extended by one of its own members (the one at the split position)
CalcMergeAgain ==
    /\ calc.fn = "merge_panels" /\ calc.pc = "value"
    /\ LET ps == calc.polygons
       IN  calc' = [fn |-> "merge_panels", pc |-> "again", polygons |-> ps,
                    perm |-> calc.perm, split |-> calc.split,
                    value |-> calc.value,
                    permuted |-> calc.permuted,
                    left |-> calc.left,
                    right |-> calc.right,
                    remerged |-> merge_panels(Geoms(calc.value)),
                    with_member |->
                        IF calc.split >= 1
                          THEN merge_panels(Append(ps, ps[calc.split]))
                          ELSE merge_panels(ps)]
    /\ UNCHANGED <<cli, variant, input_mode, pc, image_source, img, scale,
                   gate,
                   panels, result, computed, out, calls, tester, batch>>

CalcPanelStatistics ==
    /\ calc.fn = "panel_statistics" /\ calc.pc = "args"
    /\ calc' = [fn |-> "panel_statistics", pc |-> "value",
                polygons |-> calc.polygons,
                value |-> panel_statistics(calc.polygons)]
    /\ UNCHANGED <<cli, variant, input_mode, pc, image_source, img, scale,
                   gate,
                   panels, result, computed, out, calls, tester, batch>>

NextCalc ==
    \/ CalcRoundTrip
    \/ CalcBufferRadii
    \/ CalcMerge
    \/ CalcMergeAgain
    \/ CalcPanelStatistics

SpecCalc == InitCalc /\ [][NextCalc]_vars

\* C18: x square metres converted to square feet with 10.7639 and back
\* with sqft_to_sqmeters gives x within 0.01 % (relative), for every x > 0
C18_RoundTripWithinTolerance ==
    (calc.fn = "round_trip" /\ calc.pc = "value") =>
      LET x14 == SqmE14(calc.x)
          v4  == BigMulSmall(calc.value, 10000)
      IN  /\ BigLeq(BigMulSmall(x14, 9999), v4)
          /\ BigLeq(v4, BigMulSmall(x14, 10001))

\* 9 sqm comes back as 8.9999874153 sqm: inside the tolerance, not equal
C18_Witness ==
    /\ calc.fn = "round_trip" /\ calc.pc = "value"
    /\ calc.x = 90000
    /\ calc.value = <<0, 4153, 9987, 899>>
    /\ BigNorm(calc.value) # BigNorm(SqmE14(calc.x))

\* C19: for every scale > 0 get_buffer_radii returns buffer_1_px strictly
\* below buffer_2_px, and buffer_1_m strictly below buffer_2_m (the radii
\* are kept squared; squaring keeps the order of non-negative numbers)
C19_Buffer1InsideBuffer2 ==
    (calc.fn = "get_buffer_radii" /\ calc.pc = "value") =>
      /\ 0 < calc.value.buffer_1_m
      /\ calc.value.buffer_1_m < calc.value.buffer_2_m
      /\ calc.value.buffer_1_px < calc.value.buffer_2_px

\* the radii at the default scale 0.15: 39.7 px and 56.2 px
C19_Witness ==
    /\ calc.fn = "get_buffer_radii" /\ calc.pc = "value"
    /\ calc.scale_mpp = 15
    /\ calc.value.buffer_1_px = 1577
    /\ calc.value.buffer_2_px = 3154

\* the coordinates of all polygons in increasing order: the grid lines
RECURSIVE SortSet(_)
SortSet(S) ==
    IF S = {} THEN <<>>
    ELSE LET m == CHOOSE v \in S : \A w \in S : v <= w
         IN  <<m>> \o SortSet(S \ {m})

GridX == SortSet(UNION {{p[1], p[3]} : p \in Polygons})
GridY == SortSet(UNION {{p[2], p[4]} : p \in Polygons})

\* grid cell (i, j) lies between the grid lines i, i + 1 and j, j + 1; it
\* is numbered GridStride * i + j
GridStride == Len(GridX) + Len(GridY)
GridCells == {GridStride * i + j : i \in 1..(Len(GridX) - 1), j \in 1..(Len(GridY) - 1)}
CellArea(c) ==
    LET i == c \div GridStride
        j == c % GridStride
    IN  (GridX[i + 1] - GridX[i]) * (GridY[j + 1] - GridY[j])

\* the region a merged geometry covers, as the set of grid cells inside it
Region(g) ==
    IF g = NoValue THEN {}
    ELSE {c \in GridCells :
            \E k \in 1..Len(g.union_of) :
               LET p == g.union_of[k]
                   i == c \div GridStride
                   j == c % GridStride
               IN  /\ p[1] <= GridX[i] /\ GridX[i + 1] <= p[3]
                   /\ p[2] <= GridY[j] /\ GridY[j + 1] <= p[4]}

RegionArea(R) == SumOver(R, [c \in R |-> CellArea(c)])

\* C20: merge_panels is order-independent: the permuted list gives a
\* geometry with the same region and the same area, the region is the
\* union of the regions of the merged parts however the list is cut in
\* two, and the area is the area of that region
C20_MergeOrderIndependent ==
    (calc.fn = "merge_panels" /\ calc.pc = "value") =>
      /\ (calc.value = NoValue) <=> (calc.permuted = NoValue)
      /\ Region(calc.permuted) = Region(calc.value)
      /\ GeomArea(calc.permuted) = GeomArea(calc.value)
      /\ Region(calc.left) \cup Region(calc.right) = Region(calc.value)
      /\ GeomArea(calc.value) = RegionArea(Region(calc.value))
      /\ GeomArea(calc.value) =
           RegionArea(Region(calc.left) \cup Region(calc.right))

\* two overlapping panels merged in both orders: different lists, same
\* region of 900 px
C20_Witness ==
    /\ calc.fn = "merge_panels" /\ calc.pc = "value"
    /\ calc.polygons = <<RectInner, RectOverlap>>
    /\ calc.perm = <<2, 1>>
    /\ calc.value # calc.permuted
    /\ GeomArea(calc.permuted) = 900

StatCandidates(polygons, zone_id) ==
    LET radii == get_buffer_radii(METERS_PER_PIXEL_DEFAULT)
    IN  IF zone_id = 1
          THEN Detected(polygons, Buffer(CenterX, CenterY, radii.buffer_1_px))
        ELSE IF zone_id = 2
          THEN Detected(polygons, Buffer(CenterX, CenterY, radii.buffer_2_px))
        ELSE <<>>

\* x <= y * (1 + 2^-50), computed exactly
FloatWithin(x, y) ==
    IF x.m = <<>> THEN TRUE
    ELSE IF y.m = <<>> THEN FALSE
    ELSE LET e0 == Min2(x.e, y.e)
         IN  BigLeq(ToDigits(BinShl(x.m, 50 + (x.e - e0))),
                    ToDigits(BinShl(BinAdd(BinShl(y.m, 50), y.m, 0), y.e - e0)))

\* C22 as stated: the per-panel statistics run over the candidate panels
\* only: all three are 0.0 for an empty candidate set; otherwise min and max
\* are the least and the greatest of the candidates' own areas (pixel area
\* times scale squared) and min <= avg <= max
C22_StatsOrdered ==
    (calc.fn = "panel_statistics" /\ calc.pc = "value") =>
      LET v     == calc.value
          c     == StatCandidates(calc.polygons, v.zone_id)
          areas == {FloatMulInt(ScaleSqDefault, Area(c[i])) : i \in 1..Len(c)}
      IN  IF c = <<>>
            THEN /\ v.avg_panel_area_sqm = FloatZero
                 /\ v.min_panel_area_sqm = FloatZero
                 /\ v.max_panel_area_sqm = FloatZero
            ELSE /\ v.min_panel_area_sqm \in areas
                 /\ v.max_panel_area_sqm \in areas
                 /\ \A a \in areas : /\ FloatLeq(v.min_panel_area_sqm, a)
                                     /\ FloatLeq(a, v.max_panel_area_sqm)
                 /\ FloatLeq(v.min_panel_area_sqm, v.avg_panel_area_sqm)
                 /\ FloatLeq(v.avg_panel_area_sqm, v.max_panel_area_sqm)

\* C22 amended: as above, with min <= avg <= max up to the rounding of the
\* sum and of the division (a relative 2^-50)
C22_StatsOrderedUpToRounding ==
    (calc.fn = "panel_statistics" /\ calc.pc = "value") =>
      LET v     == calc.value
          c     == StatCandidates(calc.polygons, v.zone_id)
          areas == {FloatMulInt(ScaleSqDefault, Area(c[i])) : i \in 1..Len(c)}
      IN  IF c = <<>>
            THEN /\ v.avg_panel_area_sqm = FloatZero
                 /\ v.min_panel_area_sqm = FloatZero
                 /\ v.max_panel_area_sqm = FloatZero
            ELSE /\ v.min_panel_area_sqm \in areas
                 /\ v.max_panel_area_sqm \in areas
                 /\ \A a \in areas : /\ FloatLeq(v.min_panel_area_sqm, a)
                                     /\ FloatLeq(a, v.max_panel_area_sqm)
                 /\ FloatWithin(v.min_panel_area_sqm, v.avg_panel_area_sqm)
                 /\ FloatWithin(v.avg_panel_area_sqm, v.max_panel_area_sqm)

\* three detections of the same 11 x 6 px module: their mean 1.485 lies one
\* unit in the last place above their common area 1.4849999999999999
C22_Witness ==
    /\ calc.fn = "panel_statistics" /\ calc.pc = "value"
    /\ calc.polygons = <<RectModule, RectModule, RectModule>>
    /\ Len(calc.value.valid_panels) = 3
    /\ calc.value.min_panel_area_sqm = calc.value.max_panel_area_sqm
    /\ ~FloatLeq(calc.value.avg_panel_area_sqm, calc.value.max_panel_area_sqm)
    /\ FloatWithin(calc.value.avg_panel_area_sqm, calc.value.max_panel_area_sqm)

\* C23: the record's confidence is the mean confidence of all detections
\* the detector returned, rounded to two decimals (the record keeps 1e-4,
\* the detections 1e-2), and 0.0 without detections; it is decided by the detections
\* alone, whatever the zone and the candidates
C23_ConfidenceOverAllDetections ==
    pc = "done" =>
      LET n == Len(panels)
          S == SumOver(1..n, [i \in 1..n |-> panels[i].confidence])
          d == (out.confidence \div 100) * n - S
      IN  /\ out.confidence % 100 = 0
          /\ n = 0 => out.confidence = 0
          /\ n > 0 => 2 * d <= n /\ 0 - n <= 2 * d
          /\ result = NoValue => n = 0

\* zone 1 with one candidate (0.90) and one detection outside the buffers
\* (0.30): the record says 0.60
C23_Witness ==
    /\ pc = "done"
    /\ panels = <<[polygon |-> RectInner, confidence |-> 90],
                  [polygon |-> RectFar, confidence |-> 30]>>
    /\ result.zone_id = 1 /\ result.panel_count = 1
    /\ out.confidence = 6000

\* C24: analyze_buffers and create_visualization leave their inputs as they
\* found them: the list of detections (length, order, each polygon and
\* confidence), the quality metrics, the scale and the image
C24_InputsUnchanged ==
    [][(pc = "predicted" \/ pc = "analyzed") =>
         (pc' \in {"analyzed", "visualized"} /\
          UNCHANGED <<panels, gate, scale, img>>)]_vars

\* both calls have returned for two detections of which one, the first, lies
\* outside both buffers and is not a candidate
C24_Witness ==
    /\ pc = "visualized"
    /\ calls[Len(calls)] = "create_visualization"
    /\ calls[Len(calls) - 1] = "analyze_buffers"
    /\ Len(panels) = 2 /\ panels[1].polygon = RectFar
    /\ result.valid_panel_indices = <<1>>

\* C25: valid_panel_indices lists, in candidate order, the position of each
\* candidate in the input: pairwise distinct indices whose set is the set of
\* positions of the detections that intersect the winning buffer, also when
\* two detections have the same polygon
C25_IndicesArePositions ==
    (pc = "analyzed" /\ result.zone_id > 0) =>
      LET idx   == result.valid_panel_indices
          radii == get_buffer_radii(scale)
          b     == Buffer(CenterX, CenterY,
                       IF result.zone_id = 1 THEN radii.buffer_1_px
                       ELSE radii.buffer_2_px)
          pos   == {i \in 1..Len(panels) : Intersects(panels[i].polygon, b)}
      IN  /\ \A i, j \in 1..Len(idx) : i # j => idx[i] # idx[j]
          /\ {idx[i] + 1 : i \in 1..Len(idx)} = pos
          /\ \A i, j \in 1..Len(idx) : i < j => idx[i] < idx[j]

\* C26: buffer 1 lies inside buffer 2, so every detection that intersects
\* buffer 1 intersects buffer 2; in zone 2 no candidate (and no detection at
\* all) intersects buffer 1, and the zone is 0 exactly when no detection
\* intersects buffer 2
C26_BufferNesting ==
    pc = "analyzed" =>
      LET b1 == result.buffer_1
          b2 == result.buffer_2
          vp == result.valid_panels
          hits(b) == {i \in 1..Len(panels) : Intersects(panels[i].polygon, b)}
      IN  /\ hits(b1) \subseteq hits(b2)
          /\ result.zone_id = 2 =>
               /\ \A i \in 1..Len(vp) : ~Intersects(vp[i], b1)
               /\ hits(b1) = {}
          /\ result.zone_id = 0 <=> hits(b2) = {}

\* zone 2: a detection in the ring between the buffers is the only
\* candidate, next to one outside both buffers
C26_Witness ==
    /\ pc = "analyzed"
    /\ result.zone_id = 2
    /\ Len(panels) = 2
    /\ panels[1].polygon = RectFar /\ panels[2].polygon = RectRing
    /\ result.valid_panels = <<RectRing>>
    /\ ~Intersects(RectRing, result.buffer_1)
    /\ Intersects(RectRing, result.buffer_2)

(***************************************************************************)
(* main.py: the command line                                               *)
(***************************************************************************)
\* an argument that was given, with its value; an argument that was not is
\* None (NoValue). Latitudes and longitudes are in 1e-5 degrees
Given(v) == [value |-> v]

LatValues == {0, 3, 1297163, -3392517}
LonValues == {0, 7759468, -15120930}

LatArgs   == {NoValue} \cup {Given(v) : v \in LatValues}
LonArgs   == {NoValue} \cup {Given(v) : v \in LonValues}
ImageArgs == {NoValue, Given("roof.png")}

\* the truth value Python gives an optional float: None and 0.0 are false
Truthy(a) == a # NoValue /\ a.value # 0

\* round(x, 4) if x else None
RoundedOrNone(a) == IF Truthy(a) THEN Given(Round(a.value, 10)) ELSE NoValue

InitCli ==
    /\ DriversIdle("main")
    /\ tester = NoValue
    /\ batch = NoValue
    /\ calc = NoValue
    /\ \E im \in ImageArgs, la \in LatArgs, lo \in LonArgs :
         cli = [pc |-> "start", image |-> im, lat |-> la, lon |-> lo,
                latitude |-> NoValue, longitude |-> NoValue,
                image_source |-> "", fetch |-> NoValue, output |-> NoValue,
                exit |-> ""]

\* parser.parse_args(): --image and --lat form a required mutually exclusive
\* group; argparse reports the error and exits
ParseArgsError ==
    /\ cli.pc = "start"
    /\ (cli.image # NoValue) = (cli.lat # NoValue)
    /\ cli' = [cli EXCEPT !.pc = "exit", !.exit = "usage_error"]
    /\ UNCHANGED <<variant, input_mode, pc, image_source, img, scale, gate,
                   panels, result, computed, out, calls, tester, batch, calc>>

ParseArgs ==
    /\ cli.pc = "start"
    /\ (cli.image # NoValue) # (cli.lat # NoValue)
    /\ cli' = [cli EXCEPT !.pc = "parsed"]
    /\ UNCHANGED <<variant, input_mode, pc, image_source, img, scale, gate,
                   panels, result, computed, out, calls, tester, batch, calc>>

\* if args.lat and args.lon is None: parser.error(...)
ValidatePairingError ==
    /\ cli.pc = "parsed"
    /\ Truthy(cli.lat) /\ cli.lon = NoValue
    /\ cli' = [cli EXCEPT !.pc = "exit", !.exit = "usage_error"]
    /\ UNCHANGED <<variant, input_mode, pc, image_source, img, scale, gate,
                   panels, result, computed, out, calls, tester, batch, calc>>

\* the check passes; latitude = args.lat if args.lat else None, and the same
\* for the longitude
StoreCoordinates ==
    /\ cli.pc = "parsed"
    /\ ~(Truthy(cli.lat) /\ cli.lon = NoValue)
    /\ cli' = [cli EXCEPT !.pc = "validated",
                          !.latitude = IF Truthy(cli.lat) THEN cli.lat
                                       ELSE NoValue,
                          !.longitude = IF Truthy(cli.lon) THEN cli.lon
                                        ELSE NoValue]
    /\ UNCHANGED <<variant, input_mode, pc, image_source, img, scale, gate,
                   panels, result, computed, out, calls, tester, batch, calc>>

\* if args.image: cv2.imread returns an image
CliImread ==
    /\ cli.pc = "validated" /\ cli.image # NoValue
    /\ cli' = [cli EXCEPT !.pc = "loaded", !.image_source = "local"]
    /\ UNCHANGED <<variant, input_mode, pc, image_source, img, scale, gate,
                   panels, result, computed, out, calls, tester, batch, calc>>

\* cv2.imread returns None: "Could not read image file", return
CliImreadFail ==
    /\ cli.pc = "validated" /\ cli.image # NoValue
    /\ cli' = [cli EXCEPT !.pc = "exit", !.exit = "returned"]
    /\ UNCHANGED <<variant, input_mode, pc, image_source, img, scale, gate,
                   panels, result, computed, out, calls, tester, batch, calc>>

\* else: fetch_satellite_image(args.lat, args.lon, ...) returns an image
CliFetch ==
    /\ cli.pc = "validated" /\ cli.image = NoValue /\ cli.lon # NoValue
    /\ cli' = [cli EXCEPT !.pc = "loaded", !.image_source = "Google Maps",
                          !.fetch = [lat |-> cli.lat, lon |-> cli.lon]]
    /\ UNCHANGED <<variant, input_mode, pc, image_source, img, scale, gate,
                   panels, result, computed, out, calls, tester, batch, calc>>

\* fetch_satellite_image returns (None, None): "Failed to fetch", return
CliFetchFail ==
    /\ cli.pc = "validated" /\ cli.image = NoValue /\ cli.lon # NoValue
    /\ cli' = [cli EXCEPT !.pc = "exit", !.exit = "returned",
                          !.fetch = [lat |-> cli.lat, lon |-> cli.lon]]
    /\ UNCHANGED <<variant, input_mode, pc, image_source, img, scale, gate,
                   panels, result, computed, out, calls, tester, batch, calc>>

\* fetch_satellite_image called with lon = None: latlon_to_tile computes
\* lon + 180.0 and raises TypeError, which nothing catches
CliFetchRaise ==
    /\ cli.pc = "validated" /\ cli.image = NoValue /\ cli.lon = NoValue
    /\ cli' = [cli EXCEPT !.pc = "exit", !.exit = "traceback",
                          !.fetch = [lat |-> cli.lat, lon |-> cli.lon]]
    /\ UNCHANGED <<variant, input_mode, pc, image_source, img, scale, gate,
                   panels, result, computed, out, calls, tester, batch, calc>>

\* the lat / lon / source part of both output records
CliRecord(status) ==
    [lat |-> RoundedOrNone(cli.latitude),
     lon |-> RoundedOrNone(cli.longitude),
     source |-> cli.image_source,
     status |-> status]

\* the quality check fails: the NOT_VERIFIABLE record is written
CliNotVerifiable ==
    /\ cli.pc = "loaded"
    /\ cli' = [cli EXCEPT !.pc = "exit", !.exit = "written",
                          !.output = CliRecord("NOT_VERIFIABLE")]
    /\ UNCHANGED <<variant, input_mode, pc, image_source, img, scale, gate,
                   panels, result, computed, out, calls, tester, batch, calc>>

\* SolarPredictor(args.model) raises: "Error loading model", return
CliModelFail ==
    /\ cli.pc = "loaded"
    /\ cli' = [cli EXCEPT !.pc = "exit", !.exit = "returned"]
    /\ UNCHANGED <<variant, input_mode, pc, image_source, img, scale, gate,
                   panels, result, computed, out, calls, tester, batch, calc>>

\* detection and analysis run: the output record is written
CliOutput ==
    /\ cli.pc = "loaded"
    /\ cli' = [cli EXCEPT !.pc = "exit", !.exit = "written",
                          !.output = CliRecord("analysed")]
    /\ UNCHANGED <<variant, input_mode, pc, image_source, img, scale, gate,
                   panels, result, computed, out, calls, tester, batch, calc>>

NextCli ==
    \/ ParseArgsError
    \/ ParseArgs
    \/ ValidatePairingError
    \/ StoreCoordinates
    \/ CliImread
    \/ CliImreadFail
    \/ CliFetch
    \/ CliFetchFail
    \/ CliFetchRaise
    \/ CliNotVerifiable
    \/ CliModelFail
    \/ CliOutput

SpecCli == InitCli /\ [][NextCli]_vars

\* C27: --lat without --lon, whatever the latitude (0.0 included), is
\* rejected as a usage error before any work and the satellite fetch is
\* never reached; and with --lat and --lon both given, the record's lat and
\* lon are the given values rounded to 4 decimals, not null
C27_PairingValidatedBeforeWork ==
    /\ (cli.lat # NoValue /\ cli.lon = NoValue) =>
         /\ cli.fetch = NoValue
         /\ cli.pc \in {"start", "parsed", "exit"}
         /\ cli.pc = "exit" => cli.exit = "usage_error"
    /\ (cli.lat # NoValue /\ cli.lon # NoValue /\ cli.output # NoValue) =>
         /\ cli.output.lat = Given(Round(cli.lat.value, 10))
         /\ cli.output.lon = Given(Round(cli.lon.value, 10))

====
